---- MODULE Spec2Model ----
(***************************************************************************)
(* Repair orchestration of untrunc-pipeline.                               *)
(*                                                                         *)
(* Edge service (src/edge-service/app): the DirectoryScanner watches the   *)
(* ready directory, picks a reference among the stable files, repairs the  *)
(* others with the external untrunc tool under a semaphore, quarantines    *)
(* the failures and hands them to the AWS fallback endpoint.               *)
(*                                                                         *)
(* Batch pipeline (src/batch-pipeline/lambda): handle_submit_batch lists   *)
(* the videos under a prefix, picks a reference and submits the others.    *)
(*                                                                         *)
(* One asyncio event loop runs the edge service: a coroutine runs without  *)
(* interruption from one await to the next, so each action below is the    *)
(* code between two awaits.  The untrunc processes and the writers of the  *)
(* ready directory are outside the loop and interleave freely.             *)
(***************************************************************************)
EXTENDS Integers, Sequences, FiniteSets, TLC

\* ----------------------------------------------------------------- bounds
\* Relative paths under the ready directory, in rglob order:
\* 1 = a.mp4, 2 = a_fixed.mp4, 3 = b.mp4, 4 = c.mp4, ...
NPaths == 6
\* files in the ready directory when the service starts
NFiles == 3
\* scan_once calls that may be alive at the same time
MaxPasses == 2
\* the clock advances MaxTicks times by scan_interval_seconds
MaxTicks == 2
\* changes that others make to the ready directory
MaxArrivals == 1
\* HTTP requests the service receives
MaxRequests == 1
\* objects under the S3 prefix of a submit-batch request
MaxObjects == 3

\* ------------------------------------------------------ program constants
MinPlausibleSize == 1024
scan_interval_seconds == 30
min_file_age_seconds == 60
aws_fallback_retries == 3

Paths == 1..NPaths
Slots == 1..MaxPasses
\* sizes in bytes of the files producers and the tool write
FileSizes == {512, 2048}
\* values of settings.max_concurrent_jobs the model runs with
ConcurrencyChoices == {1, 2}

\* <stem>_fixed<suffix> next to the input (untrunc_runner.py:166); 0 when the
\* alternate path is outside the modelled directory
AltOf(p) == IF p = 1 /\ 2 \in Paths THEN 2 ELSE 0

NoFile == [size |-> -1, mtime |-> -1]
Exists(f) == f.size >= 0
File(sz, mt) == [size |-> sz, mtime |-> mt]

NoState == [size |-> -1, mtime |-> -1, first_seen |-> -1]
\* FileState.__init__
FileState(sz, mt, t) == [size |-> sz, mtime |-> mt, first_seen |-> t]

\* a worker task: ph its position, err the error it met, calls the calls of
\* _invoke_aws_fallback it made, k the attempt of the retry loop, posts the
\* POST requests sent, wrote whether its untrunc process has written a file
\* fb is what _invoke_aws_fallback returned: "delivered" (True), "exhausted" or
\* "disabled" (False), "none" while it has not returned
\* rc is process.returncode: -1 while no process has ended, -9 once killed
\* waits counts the backoff sleeps of _invoke_aws_fallback, wait is the length
\* of the sleep it is in, in tenths of a second
NoJob == [ph |-> "none", err |-> "none", rc |-> -1, calls |-> 0, k |-> 0,
          posts |-> 0, fb |-> "none", wrote |-> FALSE, waits |-> 0, wait |-> 0]
NoPass == [st |-> "free", origin |-> "none", ref |-> 0, cands |-> {}, sem |-> 0,
           repaired |-> 0, failed |-> 0, invoke_aws_on_failure |-> FALSE]

VARIABLES
    now,         \* time.time(), in seconds
    ready,       \* ready directory: path -> file
    export,      \* export directory: path -> size, -1 when absent
    quarantine,  \* quarantine directory: path -> size, -1 when absent
    known,       \* DirectoryScanner._known
    running,     \* DirectoryScanner._running
    loop,        \* position of run_forever
    settings,    \* the Settings instance
    pass,        \* the live scan_once calls
    job,         \* the worker tasks of each scan_once call
    arrivals,    \* writes of producers so far
    requests,    \* HTTP requests received so far
    event,       \* the submit-batch request the Lambda function receives
    result,      \* what handle_submit_batch answered
    stop_called, \* whether DirectoryScanner.stop has been called
    misses,      \* path -> consecutive scan passes whose rglob did not yield it (up to 2)
    sizing       \* a request to the resource sizing of the Lambda function, and its answers

vars == <<now, ready, export, quarantine, known, running, loop, settings,
          pass, job, arrivals, requests, event, result, stop_called, misses,
          sizing>>

\* the batch pipeline's side
cloud == <<event, result, sizing>>

fsvars == <<ready, export, quarantine>>

\* ------------------------------------------------------ sequence helpers
\* Python's sorted() on a sequence of <<key, item>> pairs: a stable insertion
RECURSIVE InsertStable(_, _)
InsertStable(x, sorted) ==
    IF sorted = <<>> THEN <<x>>
    ELSE IF Head(sorted)[1] <= x[1]
         THEN <<Head(sorted)>> \o InsertStable(x, Tail(sorted))
         ELSE <<x>> \o sorted

RECURSIVE SortedFrom(_, _)
SortedFrom(todo, acc) ==
    IF todo = <<>> THEN acc
    ELSE SortedFrom(Tail(todo), InsertStable(Head(todo), acc))

\* sorted(seq, key=Key): ascending, equal keys keep their order
Sorted(seq, Key(_)) ==
    LET keyed == [i \in 1..Len(seq) |-> <<Key(seq[i]), seq[i]>>]
        out == SortedFrom(keyed, <<>>)
    IN [i \in 1..Len(seq) |-> out[i][2]]

\* sorted(seq, key=Key, reverse=True): descending, equal keys keep their order
SortedReverse(seq, Key(_)) == LET Neg(x) == 0 - Key(x) IN Sorted(seq, Neg)

Range(seq) == {seq[i] : i \in 1..Len(seq)}

\* ready_root.rglob("*"): the paths of the directory, in directory order
RGlob == [i \in 1..NPaths |-> i]

\* ------------------------------------------------------------- scanner.py
\* DirectoryScanner._is_candidate: the modelled paths are video files that are
\* neither hidden nor temporary, so what is left is path.is_file()
IsCandidate(p) == Exists(ready[p])

\* a check of the age alone, without the comparison with _known
IsStableAtOnce(p, min_age) ==
    /\ Exists(ready[p])
    /\ ~(now - ready[p].mtime < min_age)

\* DirectoryScanner._is_stable, its result
IsStable(p, min_age) ==
    LET f == ready[p]
        prev == known[p]
    IN /\ Exists(f)
       /\ ~(now - f.mtime < min_age)
       /\ prev # NoState
       /\ ~(prev.size # f.size \/ prev.mtime # f.mtime)

\* DirectoryScanner._is_stable, what it leaves in _known[p]
KnownAfterStable(p, min_age) ==
    LET f == ready[p]
        prev == known[p]
        current == FileState(f.size, f.mtime, now)
    IN IF ~Exists(f) THEN prev
       ELSE IF now - f.mtime < min_age THEN prev
       ELSE IF prev = NoState THEN current
       ELSE IF prev.size # f.size \/ prev.mtime # f.mtime THEN current
       ELSE prev

\* scan_once, lines 145-152: the stable candidates, in rglob order
StableCandidates ==
    LET Keep(p) == IsCandidate(p) /\ IsStable(p, min_file_age_seconds)
    IN SelectSeq(RGlob, Keep)

\* scan_once, lines 145-152: _known after the loop over the directory
KnownAfterScan ==
    [p \in Paths |-> IF IsCandidate(p)
                     THEN KnownAfterStable(p, min_file_age_seconds)
                     ELSE known[p]]

\* a selector that takes the first candidate
SelectFirstCandidate(candidates, strategy) ==
    IF Len(candidates) < 2 THEN 0 ELSE candidates[1]

\* DirectoryScanner._select_reference_file; 0 is None
SelectReferenceFile(candidates, strategy) ==
    LET BySize(p) == ready[p].size
        ByMtime(p) == ready[p].mtime
    IN IF candidates = <<>> THEN 0
       ELSE IF Len(candidates) = 1 THEN 0
       ELSE IF strategy = "smallest" THEN Sorted(candidates, BySize)[1]
       ELSE IF strategy = "newest" THEN SortedReverse(candidates, ByMtime)[1]
       ELSE Sorted(candidates, BySize)[1]

\* a filter that keeps the reference among the repair targets
FilesToRepairAll(candidates, reference) == candidates

\* scan_once, line 174
FilesToRepair(candidates, reference) ==
    LET Keep(f) == f # reference IN SelectSeq(candidates, Keep)

\* --------------------------------------------------------- worker phases
Terminal == {"succeeded", "failed", "crashed"}
\* phases in which the worker holds a slot of the semaphore
Admitted == {"tool", "post", "sleep"}

\* a semaphore whose acquire does not count
SemAcquireNoCount(value) == value

\* a semaphore whose release gives nothing back
SemReleaseNever(value) == value

\* asyncio.Semaphore: acquire and release (async with sem, line 185)
SemAcquire(value) == value - 1
SemRelease(value) == value + 1

\* a scan_once call is over and none of its worker tasks is alive
SlotIdle(s) ==
    /\ pass[s].st \in {"free", "returned", "raised"}
    /\ \A p \in Paths : job[s][p].ph \in Terminal \cup {"none"}

IdleSlots == {s \in Slots : SlotIdle(s)}
FreeSlot == CHOOSE s \in IdleSlots : \A t \in IdleSlots : s <= t

\* the waiter the semaphore wakes first: tasks queue in files_to_repair order
Pending(s) == {p \in Paths : job[s][p].ph = "pending"}
FirstPending(s) == CHOOSE p \in Pending(s) : \A q \in Pending(s) : p <= q

\* the untrunc processes of one scan_once call that are running
ToolsRunning(s) == {p \in Paths : job[s][p].ph = "tool"}

\* ------------------------------------------------- scan_once, lines 130-182
\* from the call up to asyncio.gather: no await in between
\* a scan_once that goes on to the workers whatever it found
EarlyReturnNever(candidates, reference, files_to_repair) == FALSE

\* scan_once, lines 154-178: the three early returns
EarlyReturn(candidates, reference, files_to_repair) ==
    candidates = <<>> \/ reference = 0 \/ files_to_repair = <<>>

ScanOnceStart(s, origin) ==
    LET candidates == StableCandidates
        reference == SelectReferenceFile(candidates, settings.reference_strategy)
        files_to_repair == FilesToRepair(candidates, reference)
        early == EarlyReturn(candidates, reference, files_to_repair)
    IN /\ known' = KnownAfterScan
       /\ misses' = [p \in Paths |-> IF Exists(ready[p]) THEN 0
                                      ELSE IF misses[p] < 2 THEN misses[p] + 1 ELSE 2]
       /\ pass' = [pass EXCEPT ![s] =
                     [st |-> IF early THEN "returned" ELSE "gather",
                      origin |-> origin,
                      ref |-> reference,
                      cands |-> Range(candidates),
                      sem |-> IF early THEN 0 ELSE settings.max_concurrent_jobs,
                      repaired |-> 0,
                      failed |-> 0,
                      invoke_aws_on_failure |-> FALSE]]
       /\ job' = [job EXCEPT ![s] =
                     [p \in Paths |->
                        IF ~early /\ p \in Range(files_to_repair)
                        THEN [NoJob EXCEPT !.ph = "pending"]
                        ELSE NoJob]]

\* run_forever, lines 335-354: first entry, or wake-up from the sleep, then the
\* call of scan_once
LoopScan ==
    /\ loop = "start" \/ (loop = "due" /\ running)
    /\ IdleSlots # {}
    /\ running' = TRUE
    /\ ScanOnceStart(FreeSlot, "loop")
    /\ loop' = IF pass'[FreeSlot].st = "returned" THEN "sleeping" ELSE "scanning"
    /\ UNCHANGED <<now, ready, export, quarantine, settings, arrivals, requests, cloud, stop_called>>

\* run_forever, line 346: the loop wakes up from its sleep, finds _running
\* False and returns
LoopExit ==
    /\ loop = "due"
    /\ ~running
    /\ loop' = "stopped"
    /\ UNCHANGED <<now, ready, export, quarantine, known, running, settings, pass,
                   job, arrivals, requests, cloud, stop_called, misses>>

\* DirectoryScanner.stop, lines 356-358
Stop ==
    /\ ~stop_called
    /\ stop_called' = TRUE
    /\ running' = FALSE
    /\ UNCHANGED <<now, ready, export, quarantine, known, loop, settings, pass, job,
                   arrivals, requests, cloud, misses>>

\* main.py lifespan, lines 129-136: scanner.stop(), then scanner_task.cancel()
\* and the wait for the task.  CancelledError reaches run_forever at its await:
\* a task that has not run yet never runs, a sleep is abandoned, and a gather
\* that is awaited cancels the workers that have not ended; CancelledError is
\* no Exception, so run_forever does not catch it.  The workers of a scan_once
\* call that has raised are awaited by nobody and go on.
Shutdown ==
    /\ ~stop_called
    /\ stop_called' = TRUE
    /\ running' = FALSE
    /\ loop' = IF loop = "stopped" THEN loop ELSE "cancelled"
    /\ LET Awaited(s) == pass[s].origin = "loop" /\ pass[s].st = "gather"
       IN /\ pass' = [s \in Slots |->
                        IF Awaited(s) THEN [pass[s] EXCEPT !.st = "cancelled"]
                        ELSE pass[s]]
          /\ job' = [s \in Slots |-> [p \in Paths |->
                        IF Awaited(s) /\ job[s][p].ph \in {"pending", "tool", "post", "sleep"}
                        THEN [job[s][p] EXCEPT !.ph = "cancelled"]
                        ELSE job[s][p]]]
    /\ UNCHANGED <<now, ready, export, quarantine, known, settings, arrivals,
                   requests, cloud, misses>>

\* main.py scan_now, lines 225-231
ScanNow ==
    /\ requests < MaxRequests
    /\ requests' = requests + 1
    /\ IdleSlots # {}
    /\ ScanOnceStart(FreeSlot, "now")
    /\ UNCHANGED <<now, ready, export, quarantine, running, loop, settings, arrivals,
                   cloud, stop_called>>

\* main.py repair, lines 245-301, and run_untrunc up to the start of the
\* process: a request for relative_path with reference_path (0 when absent).
\* The 404 and 400 answers leave everything as it is.
Repair(relative_path, reference_path, invoke_aws_on_failure) ==
    /\ requests < MaxRequests
    /\ requests' = requests + 1
    /\ IdleSlots # {}
    /\ LET s == FreeSlot
           BySize(q) == ready[q].size
           Other(q) == Exists(ready[q]) /\ q # relative_path
           candidates == SelectSeq(RGlob, Other)
           reference == IF reference_path # 0 THEN reference_path
                        ELSE IF candidates = <<>> THEN 0
                        ELSE Sorted(candidates, BySize)[1]
           refused == \/ ~Exists(ready[relative_path])
                      \/ reference = 0
                      \/ ~Exists(ready[reference])
       IN IF refused
          THEN UNCHANGED <<pass, job>>
          ELSE /\ pass' = [pass EXCEPT ![s] =
                            [NoPass EXCEPT !.st = "handler", !.origin = "repair",
                                           !.ref = reference,
                                           !.invoke_aws_on_failure =
                                               invoke_aws_on_failure]]
               /\ job' = [job EXCEPT ![s] =
                            [q \in Paths |->
                               IF q = relative_path
                               THEN [NoJob EXCEPT !.ph = "tool"]
                               ELSE NoJob]]
    /\ UNCHANGED <<now, ready, export, quarantine, known, running, loop, settings,
                   arrivals, cloud, stop_called, misses>>

\* ------------------------------------------ untrunc_runner.py, run_untrunc
\* a run_untrunc that starts the process without a look at its arguments
PrecheckNothing(p, reference) == "none"

\* lines 77-82: the checks before the process is started; "none" when they pass
Precheck(p, reference) ==
    IF ~Exists(ready[p]) THEN "input_missing"
    ELSE IF ~Exists(ready[reference]) THEN "reference_missing"
    ELSE "none"

\* a size check that lets every output through
TooSmallNever(size) == FALSE

\* lines 176-177: output_size < 1024
TooSmall(size) == size < MinPlausibleSize

\* lines 148-192: from the exit of the process with code rc to the return,
\* on the directories rdy and exp.  res is "ok", "RepairError" or "OSError".
AfterExit(p, rc, rdy, exp) ==
    LET a == AltOf(p)
        hasAlt == a \in Paths /\ Exists(rdy[a])
        moved == exp[p] < 0 /\ hasAlt
        \* shutil.move(auto_output, output_path)
        exp1 == IF moved THEN [exp EXCEPT ![p] = rdy[a].size] ELSE exp
        rdy1 == IF moved THEN [rdy EXCEPT ![a] = NoFile] ELSE rdy
    IN IF rc # 0
       THEN [res |-> "RepairError", rc |-> rc, err |-> "exit", rdy |-> rdy, exp |-> exp]
       ELSE IF exp[p] < 0 /\ ~hasAlt
       THEN [res |-> "RepairError", rc |-> rc, err |-> "no_output", rdy |-> rdy, exp |-> exp]
       ELSE IF TooSmall(exp1[p])
       THEN [res |-> "RepairError", rc |-> rc, err |-> "too_small", rdy |-> rdy1,
             exp |-> [exp1 EXCEPT ![p] = -1]]
       ELSE IF ~Exists(rdy1[p])
       THEN [res |-> "OSError", rc |-> rc, err |-> "os_error", rdy |-> rdy1, exp |-> exp1]
       ELSE [res |-> "ok", rc |-> rc, err |-> "none", rdy |-> rdy1, exp |-> exp1]

\* lines 132-137: the process is killed and waited for
AfterTimeout(p, rdy, exp) ==
    [res |-> "RepairError", rc |-> -9, err |-> "timeout", rdy |-> rdy, exp |-> exp]

\* ------------------------------------------------ scanner.py, worker
\* the task ends: the semaphore is released and the phase is final.  The tasks
\* of a scan_once call that has raised are dropped with the last of them.  The
\* repair handler of main.py has no semaphore: it answers and is dropped.
JobEnds(s, p, phase, kind, code, called, fbres, held, rdy, exp, qua, kn) ==
    LET ended == [job EXCEPT ![s][p] =
                    [ph |-> phase, err |-> kind, rc |-> code,
                     calls |-> @.calls + called, k |-> 0, posts |-> @.posts,
                     fb |-> fbres, wrote |-> FALSE, waits |-> @.waits, wait |-> 0]]
        lastOfRaised ==
            /\ pass[s].st = "raised"
            /\ \A q \in Paths \ {p} : job[s][q].ph \in Terminal \cup {"none"}
        manual == pass[s].origin = "repair"
    IN /\ ready' = rdy
       /\ export' = exp
       /\ quarantine' = qua
       /\ known' = kn
       /\ job' = IF lastOfRaised \/ manual
                 THEN [ended EXCEPT ![s] = [q \in Paths |-> NoJob]]
                 ELSE ended
       /\ pass' = [pass EXCEPT
                     ![s].st = IF manual THEN "returned" ELSE @,
                     ![s].sem = IF manual THEN @ ELSE SemRelease(held),
                     ![s].repaired = @ + (IF phase = "succeeded" THEN 1 ELSE 0),
                     ![s].failed = @ + (IF phase = "failed" THEN 1 ELSE 0)]

\* lines 218-225: src.rename(qdst) and _known.pop(src); OSError is caught
QuarantineMove(p, rdy, qua, kn) ==
    IF Exists(rdy[p])
    THEN [rdy |-> [rdy EXCEPT ![p] = NoFile],
          qua |-> [qua EXCEPT ![p] = rdy[p].size],
          kn |-> [kn EXCEPT ![p] = NoState]]
    ELSE [rdy |-> rdy, qua |-> qua, kn |-> kn]

\* _invoke_aws_fallback, lines 262-267 and 288: whether a first POST is sent
FallbackSends ==
    settings.aws_repair_api_base_url /\ 0 < aws_fallback_retries

\* the call of _invoke_aws_fallback up to its first await, on the directories
\* the caller leaves; held is the value of the semaphore
FallbackCall(s, p, kind, code, held, rdy, exp, qua, kn) ==
    IF FallbackSends
    THEN /\ ready' = rdy
         /\ export' = exp
         /\ quarantine' = qua
         /\ known' = kn
         /\ job' = [job EXCEPT ![s][p] =
                      [ph |-> "post", err |-> kind, rc |-> code,
                       calls |-> @.calls + 1, k |-> 0, posts |-> @.posts + 1,
                       fb |-> "none", wrote |-> FALSE, waits |-> @.waits,
                       wait |-> 0]]
         /\ pass' = [pass EXCEPT ![s].sem = held]
    ELSE JobEnds(s, p, "failed", kind, code, 1,
                 IF settings.aws_repair_api_base_url THEN "exhausted" ELSE "disabled",
                 held, rdy, exp, qua, kn)

\* a worker that leaves `async with sem` before it moves the file and calls
\* _invoke_aws_fallback
WorkerFailsOutsideSem(s, p, kind, code, held, rdy, exp) ==
    LET m == QuarantineMove(p, rdy, quarantine, known)
    IN FallbackCall(s, p, kind, code, SemRelease(held), m.rdy, exp, m.qua, m.kn)

\* lines 212-229: except UntruncRepairError, the move to quarantine and the
\* call of _invoke_aws_fallback
WorkerFails(s, p, kind, code, held, rdy, exp) ==
    LET m == QuarantineMove(p, rdy, quarantine, known)
    IN FallbackCall(s, p, kind, code, held, m.rdy, exp, m.qua, m.kn)

\* an exception that is no UntruncRepairError leaves the worker
WorkerCrashes(s, p, code, held, rdy, exp) ==
    JobEnds(s, p, "crashed", "os_error", code, 0, "none", held, rdy, exp,
            quarantine, known)

\* lines 193-205: run_untrunc has returned
WorkerAfterRun(s, p, code, held, rdy, exp) ==
    IF exp[p] < 0
    THEN WorkerFails(s, p, "not_created", code, held, rdy, exp)
    ELSE IF exp[p] < MinPlausibleSize
    THEN WorkerFails(s, p, "output_small", code, held, rdy, [exp EXCEPT ![p] = -1])
    ELSE IF ~Exists(rdy[p])
    THEN WorkerCrashes(s, p, code, held, rdy, exp)
    ELSE JobEnds(s, p, "succeeded", "none", code, 0, "none", held,
                 [rdy EXCEPT ![p] = NoFile], exp, quarantine,
                 [known EXCEPT ![p] = NoState])

\* main.py repair, lines 319-330: except UntruncRepairError; the file stays
\* where it is
RepairFails(s, p, kind, code, rdy, exp) ==
    IF pass[s].invoke_aws_on_failure /\ settings.aws_repair_api_base_url
    THEN FallbackCall(s, p, kind, code, pass[s].sem, rdy, exp, quarantine, known)
    ELSE JobEnds(s, p, "failed", kind, code, 0, "none", pass[s].sem, rdy, exp,
                 quarantine, known)

\* main.py repair, lines 303-330: the outcome of run_untrunc reaches the
\* handler, which checks that dst exists and unlinks src
RepairResumes(s, p, r) ==
    IF r.res = "ok"
    THEN IF r.exp[p] < 0
         THEN RepairFails(s, p, "not_created", r.rc, r.rdy, r.exp)
         ELSE IF ~Exists(r.rdy[p])
         THEN WorkerCrashes(s, p, r.rc, pass[s].sem, r.rdy, r.exp)
         ELSE JobEnds(s, p, "succeeded", "none", r.rc, 0, "none", pass[s].sem,
                      [r.rdy EXCEPT ![p] = NoFile], r.exp, quarantine, known)
    ELSE IF r.res = "RepairError"
    THEN RepairFails(s, p, r.err, r.rc, r.rdy, r.exp)
    ELSE WorkerCrashes(s, p, r.rc, pass[s].sem, r.rdy, r.exp)

\* the outcome of run_untrunc reaches the worker (lines 189-229)
WorkerResumes(s, p, held, r) ==
    IF pass[s].origin = "repair" THEN RepairResumes(s, p, r)
    ELSE IF r.res = "ok" THEN WorkerAfterRun(s, p, r.rc, held, r.rdy, r.exp)
    ELSE IF r.res = "RepairError"
    THEN WorkerFails(s, p, r.err, r.rc, held, r.rdy, r.exp)
    ELSE WorkerCrashes(s, p, r.rc, held, r.rdy, r.exp)

\* lines 184-191 and run_untrunc lines 77-125: the semaphore admits the next
\* waiting worker, which checks its input and starts the untrunc process
JobStart(s) ==
    /\ Pending(s) # {}
    /\ pass[s].sem > 0
    /\ LET p == FirstPending(s)
           held == SemAcquire(pass[s].sem)
           pre == Precheck(p, pass[s].ref)
       IN IF pre # "none"
          THEN WorkerFails(s, p, pre, -1, held, ready, export)
          ELSE /\ job' = [job EXCEPT ![s][p].ph = "tool"]
               /\ pass' = [pass EXCEPT ![s].sem = held]
               /\ UNCHANGED <<ready, export, quarantine, known>>
    /\ UNCHANGED <<now, running, loop, settings, arrivals, requests, cloud, stop_called, misses>>

\* the untrunc process writes size bytes at -dst or at <input>_fixed
ToolWrite(s, p, where, size) ==
    /\ job[s][p].ph = "tool"
    /\ ~job[s][p].wrote
    /\ \/ /\ where = "dst"
          /\ export' = [export EXCEPT ![p] = size]
          /\ UNCHANGED ready
       \/ /\ where = "alt"
          /\ AltOf(p) \in Paths
          /\ ready' = [ready EXCEPT ![AltOf(p)] = File(size, now)]
          /\ UNCHANGED export
    /\ job' = [job EXCEPT ![s][p].wrote = TRUE]
    /\ UNCHANGED <<now, quarantine, known, running, loop, settings, pass, arrivals, requests, cloud, stop_called, misses>>

\* the untrunc process exits with code rc; run_untrunc and the worker go on
ToolExit(s, p, rc) ==
    /\ job[s][p].ph = "tool"
    /\ WorkerResumes(s, p, pass[s].sem, AfterExit(p, rc, ready, export))
    /\ UNCHANGED <<now, running, loop, settings, arrivals, requests, cloud, stop_called, misses>>

\* asyncio.wait_for gives up on the process
ToolTimeout(s, p) ==
    /\ job[s][p].ph = "tool"
    /\ WorkerResumes(s, p, pass[s].sem, AfterTimeout(p, ready, export))
    /\ UNCHANGED <<now, running, loop, settings, arrivals, requests, cloud, stop_called, misses>>

\* ------------------------------- scanner.py, _invoke_aws_fallback, 288-333
\* a loop that backs off after every failed attempt
BackoffAfterEvery(k, max_retries) == k < max_retries

\* line 325: whether the loop sleeps after the failed attempt k
BackoffAfter(k, max_retries) == k < max_retries - 1

\* random.uniform(0, 1), in tenths of a second
JitterChoices == {0, 9}

\* a backoff of one second and the jitter, whatever the attempt
BackoffWaitFlat(attempt, jitter) == 10 + jitter

\* line 326: (2 ** attempt) + random.uniform(0, 1), in tenths of a second
BackoffWait(attempt, jitter) == 10 * 2^attempt + jitter

\* the reply to the POST of attempt k arrives: ok is a 2xx response, anything
\* else is an HTTP error or a transport error
PostReply(s, p, ok) ==
    /\ job[s][p].ph = "post"
    /\ IF ok
       THEN JobEnds(s, p, "failed", job[s][p].err, job[s][p].rc, 0, "delivered",
                    pass[s].sem,
                    ready, export, quarantine, known)
       ELSE IF BackoffAfter(job[s][p].k, aws_fallback_retries)
       THEN /\ \E jitter \in JitterChoices :
                  job' = [job EXCEPT ![s][p].ph = "sleep",
                                     ![s][p].waits = @ + 1,
                                     ![s][p].wait = BackoffWait(job[s][p].k, jitter)]
            /\ UNCHANGED <<ready, export, quarantine, known, pass>>
       ELSE JobEnds(s, p, "failed", job[s][p].err, job[s][p].rc, 0, "exhausted",
                    pass[s].sem,
                    ready, export, quarantine, known)
    /\ UNCHANGED <<now, running, loop, settings, arrivals, requests, cloud, stop_called, misses>>

\* the backoff sleep ends and the next attempt is sent
SleepDone(s, p) ==
    /\ job[s][p].ph = "sleep"
    /\ job' = [job EXCEPT ![s][p].ph = "post", ![s][p].k = @ + 1,
                          ![s][p].posts = @ + 1, ![s][p].wait = 0]
    /\ UNCHANGED <<now, ready, export, quarantine, known, running, loop,
                   settings, pass, arrivals, requests, cloud, stop_called, misses>>

\* ------------------------------------------------ scan_once, lines 231-250
\* asyncio.gather returns: every worker ended without an exception.  The
\* reference is copied to export unless a file is there, and scan_once returns
\* its counts; its tasks are dropped.
PassFinish(s) ==
    /\ pass[s].st = "gather"
    /\ \A p \in Paths : job[s][p].ph \in {"none", "succeeded", "failed"}
    /\ LET reference == pass[s].ref
       IN export' = IF export[reference] < 0 /\ Exists(ready[reference])
                    THEN [export EXCEPT ![reference] = ready[reference].size]
                    ELSE export
    /\ pass' = [pass EXCEPT ![s].st = "returned"]
    /\ job' = [job EXCEPT ![s] = [q \in Paths |-> NoJob]]
    /\ loop' = IF pass[s].origin = "loop" THEN "sleeping" ELSE loop
    /\ UNCHANGED <<now, ready, quarantine, known, running, settings, arrivals, requests, cloud, stop_called, misses>>

\* a run_forever without its except clause: the exception of scan_once ends
\* the task
PassRaiseEndsLoop(s) ==
    /\ pass[s].st = "gather"
    /\ \E p \in Paths : job[s][p].ph = "crashed"
    /\ pass' = [pass EXCEPT ![s].st = "raised"]
    /\ job' = IF \A q \in Paths : job[s][q].ph \in Terminal \cup {"none"}
              THEN [job EXCEPT ![s] = [q \in Paths |-> NoJob]]
              ELSE job
    /\ loop' = IF pass[s].origin = "loop" THEN "stopped" ELSE loop
    /\ UNCHANGED <<now, ready, export, quarantine, known, running, settings,
                   arrivals, requests, cloud, stop_called, misses>>

\* asyncio.gather raises the first exception of a worker: scan_once raises and
\* the other workers go on.  run_forever logs it (line 351), scan_now answers 500.
PassRaise(s) ==
    /\ pass[s].st = "gather"
    /\ \E p \in Paths : job[s][p].ph = "crashed"
    /\ pass' = [pass EXCEPT ![s].st = "raised"]
    /\ job' = IF \A q \in Paths : job[s][q].ph \in Terminal \cup {"none"}
              THEN [job EXCEPT ![s] = [q \in Paths |-> NoJob]]
              ELSE job
    /\ loop' = IF pass[s].origin = "loop" THEN "sleeping" ELSE loop
    /\ UNCHANGED <<now, ready, export, quarantine, known, running, settings,
                   arrivals, requests, cloud, stop_called, misses>>

\* ------------------------------------------------------------ environment
\* time passes; asyncio.sleep(scan_interval_seconds) of run_forever is over
Tick ==
    /\ now < min_file_age_seconds + MaxTicks * scan_interval_seconds
    /\ now' = now + scan_interval_seconds
    /\ loop' = IF loop = "sleeping" THEN "due" ELSE loop
    /\ UNCHANGED <<ready, export, quarantine, known, running, settings, pass, job,
                   arrivals, requests, cloud, stop_called, misses>>

\* a producer writes a file of size bytes at path p of the ready directory
FileArrives(p, size) ==
    /\ arrivals < MaxArrivals
    /\ arrivals' = arrivals + 1
    /\ ready' = [ready EXCEPT ![p] = File(size, now)]
    /\ UNCHANGED <<now, export, quarantine, known, running, loop, settings, pass, job,
                   requests, cloud, stop_called, misses>>

\* a producer copies a file into the ready directory and keeps the modification
\* time mtime of the original (cp -p, rsync -t)
FileCopied(p, size, mtime) ==
    /\ arrivals < MaxArrivals
    /\ arrivals' = arrivals + 1
    /\ mtime <= now
    /\ ready' = [ready EXCEPT ![p] = File(size, mtime)]
    /\ UNCHANGED <<now, export, quarantine, known, running, loop, settings, pass, job,
                   requests, cloud, stop_called, misses>>

\* somebody outside the service moves or deletes the file at path p of the
\* ready directory
FileVanishes(p) ==
    /\ arrivals < MaxArrivals
    /\ arrivals' = arrivals + 1
    /\ Exists(ready[p])
    /\ ready' = [ready EXCEPT ![p] = NoFile]
    /\ UNCHANGED <<now, export, quarantine, known, running, loop, settings, pass, job,
                   requests, cloud, stop_called, misses>>

\* ------------------------------------------------------ lambda_function.py
NoEvent == [files |-> <<>>, reference_strategy |-> "smallest", reference_key |-> 0]
NoResult == [status |-> 0, reference_file |-> 0, files_to_repair |-> <<>>]

\* a selector whose newest branch sorts without reverse=True
select_reference_file_ascending(files, strategy, explicit_ref) ==
    LET BySize(f) == f.size
        ByLastModified(f) == f.last_modified
    IN IF explicit_ref # 0 /\ \E i \in 1..Len(files) : files[i].key = explicit_ref
       THEN explicit_ref
       ELSE IF files = <<>> THEN 0
       ELSE IF strategy = "newest" THEN Sorted(files, ByLastModified)[1].key
       ELSE Sorted(files, BySize)[1].key

\* a selector that does not look at explicit_ref
select_reference_file_by_strategy(files, strategy, explicit_ref) ==
    LET BySize(f) == f.size
        ByLastModified(f) == f.last_modified
    IN IF files = <<>> THEN 0
       ELSE IF strategy = "newest" THEN SortedReverse(files, ByLastModified)[1].key
       ELSE Sorted(files, BySize)[1].key

\* select_reference_file; keys are positive and 0 is None
select_reference_file(files, strategy, explicit_ref) ==
    LET BySize(f) == f.size
        ByLastModified(f) == f.last_modified
    IN IF explicit_ref # 0 /\ \E i \in 1..Len(files) : files[i].key = explicit_ref
       THEN explicit_ref
       ELSE IF files = <<>> THEN 0
       ELSE IF strategy = "smallest" THEN Sorted(files, BySize)[1].key
       ELSE IF strategy = "newest" THEN SortedReverse(files, ByLastModified)[1].key
       ELSE Sorted(files, BySize)[1].key

\* handle_submit_batch, lines 349-350
RepairKeys(video_files, reference_key) ==
    LET Keep(f) == f.key # reference_key
        files_to_repair == SelectSeq(video_files, Keep)
    IN [i \in 1..Len(files_to_repair) |-> files_to_repair[i].key]

\* a call of select_reference_file alone on the listing, the strategy and the
\* reference_key of the request; status 1 marks its answer
SelectReference ==
    /\ event # NoEvent
    /\ result = NoResult
    /\ result' = [NoResult EXCEPT
                    !.status = 1,
                    !.reference_file = select_reference_file(event.files,
                                          event.reference_strategy, event.reference_key)]
    /\ UNCHANGED <<now, ready, export, quarantine, known, running, loop, settings,
                   pass, job, arrivals, requests, event, stop_called, misses, sizing>>

\* handle_submit_batch, lines 317-445, for a well-formed request; submitted is
\* whether batch.submit_job went through
HandleSubmitBatch(submitted) ==
    /\ event # NoEvent
    /\ result = NoResult
    /\ LET video_files == event.files
           reference_key == select_reference_file(video_files,
                                event.reference_strategy, event.reference_key)
       IN result' =
            IF video_files = <<>> THEN [NoResult EXCEPT !.status = 400]
            ELSE IF Len(video_files) < 2 THEN [NoResult EXCEPT !.status = 400]
            ELSE IF reference_key = 0 THEN [NoResult EXCEPT !.status = 400]
            ELSE IF ~submitted THEN [NoResult EXCEPT !.status = 500]
            ELSE [status |-> 202,
                  reference_file |-> reference_key,
                  files_to_repair |-> RepairKeys(video_files, reference_key)]
    /\ UNCHANGED <<now, ready, export, quarantine, known, running, loop, settings,
                   pass, job, arrivals, requests, event, stop_called, misses, sizing>>

\* ------------------------------------------- lambda_function.py, resources
\* Sizes are counted in units of 512 KiB (2^19 bytes): 2048 units are 1 GB, and
\* for such sizes the quotients of the code are exact.  vCPU values are counted
\* in hundredths: 25 is 0.25 vCPU.
\* st is "none", "sizes" (total_bytes and largest_file_bytes are given),
\* "resources" (vcpu, memory and storage are requested) or "valid" (the
\* request went through validate_fargate_resources); auto_scaled is whether
\* the request is the answer of calculate_resources
NoSizing ==
    [st |-> "none", total_bytes |-> 0, largest_file_bytes |-> 0,
     vcpu |-> 0, memory |-> 0, storage |-> 0, auto_scaled |-> FALSE,
     vcpu_str |-> 0, memory_int |-> 0]

\* a table whose XL tier has less memory and storage than its Large tier
RESOURCE_TIERS_dip ==
    << <<5, 100, 2048, 30>>, <<20, 200, 4096, 60>>, <<50, 400, 8192, 120>>,
       <<100, 400, 4096, 100>>, <<200, 800, 30720, 200>> >>

\* RESOURCE_TIERS: (max_total_gb, vcpu, memory_mb, storage_gb)
RESOURCE_TIERS ==
    << <<5, 100, 2048, 30>>, <<20, 200, 4096, 60>>, <<50, 400, 8192, 120>>,
       <<100, 400, 16384, 175>>, <<200, 800, 30720, 200>> >>

Arithmetic(from, to, step) ==
    [i \in 1..((to - from) \div step + 1) |-> from + (i - 1) * step]

\* sorted(FARGATE_VALID_COMBOS.keys())
valid_vcpus == <<25, 50, 100, 200, 400, 800, 1600>>

\* FARGATE_VALID_COMBOS[v]
FARGATE_VALID_COMBOS(v) ==
    IF v = 25 THEN <<512, 1024, 2048>>
    ELSE IF v = 50 THEN <<1024, 2048, 3072, 4096>>
    ELSE IF v = 100 THEN Arithmetic(2048, 8192, 1024)
    ELSE IF v = 200 THEN Arithmetic(4096, 16384, 1024)
    ELSE IF v = 400 THEN Arithmetic(8192, 30720, 1024)
    ELSE IF v = 800 THEN Arithmetic(16384, 61440, 4096)
    ELSE Arithmetic(32768, 122880, 8192)

Max(a, b) == IF a >= b THEN a ELSE b
Min(a, b) == IF a <= b THEN a ELSE b

\* a snap that keeps the request when the grid has nothing as large
FirstAtLeastOrSame(seq, wanted) ==
    IF \E i \in 1..Len(seq) : seq[i] >= wanted
    THEN seq[CHOOSE i \in 1..Len(seq) :
                /\ seq[i] >= wanted
                /\ \A j \in 1..(i - 1) : ~(seq[j] >= wanted)]
    ELSE wanted

\* `for x in seq: if x >= wanted: break`, else the last element
FirstAtLeast(seq, wanted) ==
    IF \E i \in 1..Len(seq) : seq[i] >= wanted
    THEN seq[CHOOSE i \in 1..Len(seq) :
                /\ seq[i] >= wanted
                /\ \A j \in 1..(i - 1) : ~(seq[j] >= wanted)]
    ELSE seq[Len(seq)]

\* a sizing whose tier test is `total_gb < max_gb`
calculate_resources_below(total_bytes, largest_file_bytes) ==
    LET Fits(i) == total_bytes < RESOURCE_TIERS[i][1] * 2048
        tier == IF \E i \in 1..Len(RESOURCE_TIERS) : Fits(i)
                THEN RESOURCE_TIERS[CHOOSE i \in 1..Len(RESOURCE_TIERS) :
                         Fits(i) /\ \A j \in 1..(i - 1) : ~Fits(j)]
                ELSE <<0, 800, 30720, 200>>
    IN [vcpu |-> tier[2],
        memory |-> Min(Max(tier[3], largest_file_bytes), 122880),
        storage |-> Min(Max(tier[4], (largest_file_bytes * 3) \div 2048 + 10), 200)]

\* calculate_resources
calculate_resources(total_bytes, largest_file_bytes) ==
    LET Fits(i) == total_bytes <= RESOURCE_TIERS[i][1] * 2048
        tier == IF \E i \in 1..Len(RESOURCE_TIERS) : Fits(i)
                THEN RESOURCE_TIERS[CHOOSE i \in 1..Len(RESOURCE_TIERS) :
                         Fits(i) /\ \A j \in 1..(i - 1) : ~Fits(j)]
                ELSE <<0, 800, 30720, 200>>
        min_memory_for_largest == largest_file_bytes
        min_storage_for_largest == (largest_file_bytes * 3) \div 2048 + 10
    IN [vcpu |-> tier[2],
        memory |-> Min(Max(tier[3], min_memory_for_largest), 122880),
        storage |-> Min(Max(tier[4], min_storage_for_largest), 200)]

\* validate_fargate_resources: <<vcpu_str, selected_memory>>
validate_fargate_resources(vcpu, memory) ==
    LET selected_vcpu == FirstAtLeast(valid_vcpus, vcpu)
        selected_memory == FirstAtLeast(FARGATE_VALID_COMBOS(selected_vcpu), memory)
        vcpu_str == IF selected_vcpu < 100 THEN selected_vcpu
                    ELSE (selected_vcpu \div 100) * 100
    IN <<vcpu_str, selected_memory>>

\* handle_submit_batch, lines 353-361: the call of calculate_resources
CalculateResources ==
    /\ sizing.st = "sizes"
    /\ LET auto_resources == calculate_resources(sizing.total_bytes,
                                                 sizing.largest_file_bytes)
       IN sizing' = [sizing EXCEPT !.st = "resources",
                                   !.auto_scaled = TRUE,
                                   !.vcpu = auto_resources.vcpu,
                                   !.memory = auto_resources.memory,
                                   !.storage = auto_resources.storage]
    /\ UNCHANGED <<now, ready, export, quarantine, known, running, loop, settings,
                   pass, job, arrivals, requests, event, result, stop_called, misses>>

\* handle_submit_batch, lines 368-372: the call of validate_fargate_resources
\* and the cap of the storage
ValidateFargateResources ==
    /\ sizing.st = "resources"
    /\ LET valid == validate_fargate_resources(sizing.vcpu, sizing.memory)
       IN sizing' = [sizing EXCEPT !.st = "valid",
                                   !.vcpu_str = valid[1],
                                   !.memory_int = valid[2],
                                   !.storage = Min(sizing.storage, 200)]
    /\ UNCHANGED <<now, ready, export, quarantine, known, running, loop, settings,
                   pass, job, arrivals, requests, event, result, stop_called, misses>>

\* ---------------------------------------------------------- specification
\* the values of reference_strategy: the two the code names and another one
Strategies == {"smallest", "newest", "largest"}

\* Settings.validate_strategy: TRUE when the value is accepted, FALSE when the
\* validator raises ValueError
validate_strategy(v) == v \in {"smallest", "newest"}

SettingsChoices ==
    [max_concurrent_jobs : ConcurrencyChoices,
     aws_repair_api_base_url : BOOLEAN,
     reference_strategy : {"smallest"}]

\* the settings of a service without the fallback endpoint
LimitSettings ==
    [max_concurrent_jobs : ConcurrencyChoices,
     aws_repair_api_base_url : {FALSE},
     reference_strategy : {"smallest"}]

\* what the ready directory may hold when the service starts: files written at
\* time 0
InitialFiles == {NoFile} \cup {File(size, 0) : size \in FileSizes}

\* the service starts min_file_age_seconds after time 0, with empty export and
\* quarantine directories
InitWith(dirs, choices) ==
    /\ now = min_file_age_seconds
    /\ ready \in dirs
    /\ export = [p \in Paths |-> -1]
    /\ quarantine = [p \in Paths |-> -1]
    /\ known = [p \in Paths |-> NoState]
    /\ running = FALSE
    /\ settings \in choices
    /\ loop = IF validate_strategy(settings.reference_strategy) THEN "start" ELSE "failed"
    /\ pass = [s \in Slots |-> NoPass]
    /\ job = [s \in Slots |-> [p \in Paths |-> NoJob]]
    /\ arrivals = 0
    /\ requests = 0
    /\ stop_called = FALSE
    /\ misses = [p \in Paths |-> 0]

\* no submit-batch request reaches the Lambda function
CloudIdle == event = NoEvent /\ result = NoResult /\ sizing = NoSizing

\* the directories of at most NFiles files
StartDirs ==
    {d \in [Paths -> InitialFiles] : \A p \in Paths : p > NFiles => d[p] = NoFile}

\* the directory of NFiles files of 2048 bytes, the last one of size last
FullDir(last) ==
    [p \in Paths |-> IF p > NFiles THEN NoFile
                     ELSE IF p = NFiles THEN File(last, 0) ELSE File(2048, 0)]

Init == InitWith(StartDirs, SettingsChoices) /\ CloudIdle

\* the periodic loop and its batches
NextLoop ==
    \/ LoopScan
    \/ \E s \in Slots : JobStart(s)
    \/ \E s \in Slots, p \in Paths, size \in FileSizes :
          ToolWrite(s, p, "dst", size) \/ ToolWrite(s, p, "alt", size)
    \/ \E s \in Slots, p \in Paths, rc \in {0, 1} : ToolExit(s, p, rc)
    \/ \E s \in Slots, p \in Paths : ToolTimeout(s, p)
    \/ \E s \in Slots, p \in Paths, ok \in BOOLEAN : PostReply(s, p, ok)
    \/ \E s \in Slots, p \in Paths : SleepDone(s, p)
    \/ \E s \in Slots : PassFinish(s)
    \/ \E s \in Slots : PassRaise(s)
    \/ Tick

Spec == Init /\ [][NextLoop]_vars

\* the periodic loop over a directory of NFiles + 1 files, the smallest of
\* them at path NFiles, without the fallback
LocalDir ==
    [p \in Paths |-> IF p > NFiles + 1 THEN NoFile
                     ELSE IF p = NFiles THEN File(512, 0) ELSE File(2048, 0)]

InitLocal == InitWith({LocalDir}, LimitSettings) /\ CloudIdle

NextLocal ==
    \/ LoopScan
    \/ \E s \in Slots : JobStart(s)
    \/ \E s \in Slots, p \in Paths, size \in FileSizes :
          ToolWrite(s, p, "dst", size) \/ ToolWrite(s, p, "alt", size)
    \/ \E s \in Slots, p \in Paths, rc \in {0, 1} : ToolExit(s, p, rc)
    \/ \E s \in Slots, p \in Paths : ToolTimeout(s, p)
    \/ \E s \in Slots : PassFinish(s)
    \/ \E s \in Slots : PassRaise(s)
    \/ Tick

SpecLocal == InitLocal /\ [][NextLocal]_vars

\* the periodic loop and the scan-now endpoint, without the fallback
ApiDirs ==
    {FullDir(2048), FullDir(512)}

ApiSettings ==
    [max_concurrent_jobs : {1},
     aws_repair_api_base_url : {FALSE},
     reference_strategy : {"smallest"}]

InitApi == InitWith(ApiDirs, ApiSettings) /\ CloudIdle

Next ==
    \/ NextLocal
    \/ ScanNow

SpecApi == InitApi /\ [][Next]_vars

\* the periodic loop over a directory that others write to and delete from
InitWatch == InitWith({FullDir(512)}, ApiSettings) /\ CloudIdle

NextWatch ==
    \/ NextLocal
    \/ \E p \in Paths, size \in FileSizes : FileArrives(p, size)
    \/ \E p \in Paths, size \in FileSizes : FileCopied(p, size, 0)
    \/ \E p \in Paths : FileVanishes(p)

SpecWatch == InitWatch /\ [][NextWatch]_vars

\* one batch on each side: the edge service over a directory of three files,
\* and the Lambda function over a listing of the S3 prefix
ObjectsOf(n, times) ==
    [1..n -> [size : FileSizes, last_modified : times]]

\* list_video_files: the objects in key order, the key being the position
Listings(times) ==
    UNION {{[i \in 1..n |-> [key |-> i, size |-> o[i].size,
                             last_modified |-> o[i].last_modified]] :
            o \in ObjectsOf(n, times)} : n \in 0..MaxObjects}

Events(times) ==
    [files : Listings(times),
     reference_strategy : {"smallest", "newest"},
     reference_key : {0, 1, MaxObjects + 1}]

InitBatches ==
    /\ InitWith({FullDir(2048)}, ApiSettings)
    /\ event \in Events({1})
    /\ result = NoResult
    /\ sizing = NoSizing

NextBatches ==
    \/ LoopScan
    \/ \E s \in Slots : JobStart(s)
    \/ \E s \in Slots, p \in Paths, size \in FileSizes :
          ToolWrite(s, p, "dst", size) \/ ToolWrite(s, p, "alt", size)
    \/ \E s \in Slots, p \in Paths, rc \in {0, 1} : ToolExit(s, p, rc)
    \/ \E s \in Slots, p \in Paths : ToolTimeout(s, p)
    \/ \E s \in Slots : PassFinish(s)
    \/ Tick
    \/ \E submitted \in BOOLEAN : HandleSubmitBatch(submitted)

SpecBatches == InitBatches /\ [][NextBatches]_vars

\* the two reference selectors over every directory of at most NFiles files
\* with two sizes and two modification times, and over every listing of at most
\* MaxObjects objects, with every strategy and override
SelectFiles ==
    {NoFile} \cup {File(size, mtime) : size \in FileSizes, mtime \in {-30, 0}}

SelectDirs ==
    {d \in [Paths -> SelectFiles] : \A p \in Paths : p > NFiles => d[p] = NoFile}

SelectSettings ==
    [max_concurrent_jobs : {1},
     aws_repair_api_base_url : {FALSE},
     reference_strategy : Strategies]

SelectEvents ==
    [files : Listings({1, 2}),
     reference_strategy : Strategies,
     reference_key : {0, 1, MaxObjects + 1}]

InitSelect ==
    \/ InitWith(SelectDirs, SelectSettings) /\ CloudIdle
    \/ /\ InitWith({[p \in Paths |-> IF p = 1 THEN File(2048, 0) ELSE NoFile]},
                ApiSettings)
       /\ event \in SelectEvents
       /\ result = NoResult
       /\ sizing = NoSizing

NextSelect ==
    \/ NextBatches
    \/ SelectReference

SpecSelect == InitSelect /\ [][NextSelect]_vars

\* the resource sizing: sizes at, next to and between the thresholds of the
\* tiers, and direct requests (the vcpu and memory fields of a submit-batch
\* request) on, between and beyond the points of the grid
SizePoints ==
    {0, 1, 2048, 4300, 5 * 2048, 5 * 2048 + 1, 9000, 20 * 2048, 20 * 2048 + 1,
     50 * 2048, 50 * 2048 + 1, 100 * 2048, 100 * 2048 + 1, 125000,
     200 * 2048, 200 * 2048 + 1}

VcpuRequests == {1, 25, 30, 50, 100, 150, 200, 400, 800, 1600, 1700, 3200}

MemoryRequests == {1, 512, 2048, 3000, 8192, 8193, 16384, 30720, 30721, 61440,
                   122880, 122881, 200000}

SizingRequests ==
    {[NoSizing EXCEPT !.st = "sizes", !.total_bytes = t, !.largest_file_bytes = l] :
        t \in SizePoints, l \in SizePoints}
    \cup
    {[NoSizing EXCEPT !.st = "resources", !.vcpu = v, !.memory = m, !.storage = 30] :
        v \in VcpuRequests, m \in MemoryRequests}

InitSizing ==
    /\ InitWith({[p \in Paths |-> NoFile]}, ApiSettings)
    /\ event = NoEvent
    /\ result = NoResult
    /\ sizing \in SizingRequests

NextSizing ==
    \/ CalculateResources
    \/ ValidateFargateResources

SpecSizing == InitSizing /\ [][NextSizing]_vars

\* one large batch: a directory of NPaths files, hence NPaths - 1 repair jobs,
\* without the fallback
InitLimit == InitWith({[p \in Paths |-> File(2048, 0)]}, LimitSettings) /\ CloudIdle

NextLimit ==
    \/ LoopScan
    \/ \E s \in Slots : JobStart(s)
    \/ \E s \in Slots, p \in Paths, size \in FileSizes :
          ToolWrite(s, p, "dst", size)
    \/ \E s \in Slots, p \in Paths, rc \in {0, 1} : ToolExit(s, p, rc)
    \/ \E s \in Slots, p \in Paths : ToolTimeout(s, p)
    \/ \E s \in Slots : PassFinish(s)
    \/ Tick

SpecLimit == InitLimit /\ [][NextLimit]_vars

\* the repair endpoint alone, with the fallback endpoint configured
ManualSettings ==
    [max_concurrent_jobs : {1},
     aws_repair_api_base_url : {TRUE},
     reference_strategy : {"smallest"}]

InitManual == InitWith(ApiDirs, ManualSettings) /\ CloudIdle

NextManual ==
    \/ \E p \in Paths, r \in Paths \cup {0}, f \in BOOLEAN : Repair(p, r, f)
    \/ \E s \in Slots, p \in Paths, size \in FileSizes :
          ToolWrite(s, p, "dst", size) \/ ToolWrite(s, p, "alt", size)
    \/ \E s \in Slots, p \in Paths, rc \in {0, 1} : ToolExit(s, p, rc)
    \/ \E s \in Slots, p \in Paths : ToolTimeout(s, p)
    \/ \E s \in Slots, p \in Paths, ok \in BOOLEAN : PostReply(s, p, ok)
    \/ \E s \in Slots, p \in Paths : SleepDone(s, p)

SpecManual == InitManual /\ [][NextManual]_vars

\* the periodic loop and the host that stops it
NextStop ==
    \/ NextLocal
    \/ LoopExit
    \/ Stop
    \/ Shutdown

SpecStop == InitLocal /\ [][NextStop]_vars

\* the steps the event loop and the untrunc processes are bound to take: a
\* released semaphore wakes its first waiter, a process ends or is killed at
\* the timeout, gather returns or raises
Progress ==
    \/ \E s \in Slots : JobStart(s)
    \/ \E s \in Slots, p \in Paths, rc \in {0, 1} : ToolExit(s, p, rc)
    \/ \E s \in Slots, p \in Paths : ToolTimeout(s, p)
    \/ \E s \in Slots : PassFinish(s)
    \/ \E s \in Slots : PassRaise(s)

FairLocal == SpecLocal /\ WF_vars(Progress)

\* the same, and time passes and the task of run_forever is scheduled
FairLoop == SpecLocal /\ WF_vars(Progress) /\ WF_vars(Tick) /\ WF_vars(LoopScan)

\* ============================================================= properties
\* the repair targets of a live scan_once call
Targets(s) == {p \in Paths : job[s][p].ph # "none"}

\* C1: in every batch built by scan_once and by handle_submit_batch, the
\* reference is not among the repair targets, and the repair targets are exactly
\* the candidates other than the reference.
C1_ReferenceIsNoTarget ==
    /\ \A s \in Slots :
          Targets(s) # {} =>
             /\ pass[s].ref \notin Targets(s)
             /\ Targets(s) = pass[s].cands \ {pass[s].ref}
    /\ result.status = 202 =>
          LET keys == {event.files[i].key : i \in 1..Len(event.files)}
              targets == Range(result.files_to_repair)
          IN /\ result.reference_file \notin targets
             /\ targets = keys \ {result.reference_file}

\* a batch of two targets on each side
C1_Witness ==
    /\ \E s \in Slots : pass[s].st = "gather" /\ Cardinality(Targets(s)) = 2
    /\ result.status = 202
    /\ Len(result.files_to_repair) = 2

\* C2: within one scan_once batch the number of untrunc processes running at
\* the same moment never exceeds max_concurrent_jobs
C2_ToolsWithinLimit ==
    \A s \in Slots : Cardinality(ToolsRunning(s)) <= settings.max_concurrent_jobs

\* the limit binds: of NPaths - 1 jobs two run their tool and the others wait
C2_Witness ==
    \E s \in Slots :
        /\ settings.max_concurrent_jobs = 2
        /\ Cardinality(Targets(s)) = NPaths - 1
        /\ Cardinality(ToolsRunning(s)) = 2
        /\ Cardinality(Pending(s)) = NPaths - 3

\* the phases of a worker task that has not reached its terminal outcome
Live == {"pending", "tool", "post", "sleep"}

\* a job of the batch of p has failed, whatever the kind
SiblingFailed(s, p) ==
    \E q \in Paths \ {p} : job[s][q].err # "none"

RunUntruncErrors ==
    {"input_missing", "reference_missing", "timeout", "exit", "no_output",
     "too_small"}

\* the step in which the run_untrunc call of job p of pass s fails
RunUntruncFails(s, p) ==
    /\ job[s][p].ph \in {"pending", "tool"}
    /\ job'[s][p].err \in RunUntruncErrors

\* C4: after a failed run_untrunc call no file smaller than 1024 bytes is left
\* at the requested destination path
C4_NoSmallOutputLeft ==
    [][\A s \in Slots, p \in Paths :
          RunUntruncFails(s, p) =>
             ~(0 <= export'[p] /\ export'[p] < MinPlausibleSize)]_vars

\* C5: a job whose tool exits 0 having written neither the destination nor the
\* alternate path fails, its input is in quarantine and no longer in ready, and
\* one fallback dispatch is made for it
C5_SilentExitFails ==
    [][\A s \in Slots, p \in Paths :
          (ToolExit(s, p, 0) /\ ~job[s][p].wrote) =>
             /\ job'[s][p].ph # "succeeded"
             /\ pass'[s].repaired = pass[s].repaired
             /\ job'[s][p].ph # "none" =>
                   /\ job'[s][p].err \in {"no_output", "too_small", "not_created"}
                   /\ job'[s][p].calls = 1
             /\ quarantine'[p] >= 0
             /\ ~Exists(ready'[p])]_vars

\* the step in which the run_untrunc call of job p of pass s returns normally:
\* the worker goes on to its own checks of the output (scanner.py:193-205)
RunUntruncReturns(s, p) ==
    /\ job[s][p].ph = "tool"
    /\ job'[s][p].ph \in {"succeeded", "post", "failed"}
    /\ job'[s][p].err \in {"none", "not_created", "output_small"}

\* C6: run_untrunc returns normally only if the tool exited with code 0 and a
\* file of at least 1024 bytes is at the destination when it returns, and
\* scan_once counts a job as repaired only in that case
C6_SuccessNeedsPlausibleOutput ==
    [][\A s \in Slots :
          /\ \A p \in Paths :
                RunUntruncReturns(s, p) =>
                   /\ job'[s][p].rc = 0
                   /\ export'[p] >= MinPlausibleSize
          /\ pass'[s].repaired = pass[s].repaired + 1 =>
                \E p \in Paths :
                   /\ ToolExit(s, p, 0)
                   /\ export'[p] >= MinPlausibleSize]_vars

\* a job has been counted as repaired and its output is in the export directory
C6_Witness ==
    \E s \in Slots, p \in Paths :
        /\ job[s][p].ph = "succeeded"
        /\ job[s][p].rc = 0
        /\ pass[s].repaired >= 1
        /\ export[p] >= MinPlausibleSize

\* C7: with the endpoint configured and every attempt failing,
\* _invoke_aws_fallback sends exactly aws_fallback_retries POSTs and returns
\* False; with no endpoint configured it sends none and returns False
C7_FallbackAttempts ==
    \A s \in Slots, p \in Paths :
        /\ job[s][p].posts <= aws_fallback_retries
        /\ job[s][p].fb = "exhausted" =>
              /\ settings.aws_repair_api_base_url
              /\ job[s][p].posts = aws_fallback_retries
        /\ job[s][p].fb = "disabled" => ~settings.aws_repair_api_base_url
        /\ ~settings.aws_repair_api_base_url => job[s][p].posts = 0
        /\ job[s][p].fb = "delivered" =>
              /\ settings.aws_repair_api_base_url
              /\ job[s][p].posts \in 1..aws_fallback_retries
        /\ (job[s][p].ph = "failed" /\ job[s][p].calls = 1) =>
              job[s][p].fb \in {"disabled", "delivered", "exhausted"}

\* the fallback of a job has given up after its last attempt
C7_Witness ==
    \E s \in Slots, p \in Paths :
        /\ job[s][p].fb = "exhausted"
        /\ job[s][p].posts = aws_fallback_retries

\* C8: at every call of _invoke_aws_fallback for a file, the file is in the
\* quarantine directory and no longer in the ready directory
C8_QuarantinedBeforeFallback ==
    [][\A s \in Slots, p \in Paths :
          job'[s][p].calls > job[s][p].calls =>
             /\ quarantine'[p] >= 0
             /\ ~Exists(ready'[p])]_vars

\* the error kinds of a tool execution error: nonzero exit, timeout,
\* implausible output
ToolErrors ==
    {"exit", "timeout", "no_output", "too_small", "not_created", "output_small"}

\* C9: a job that fails with a tool execution error ends with its input in the
\* quarantine directory, no longer in the ready directory, and with one call of
\* the fallback dispatcher made for it
C9_ToolErrorQuarantines ==
    [][\A s \in Slots, p \in Paths :
          (job[s][p].ph = "tool" /\ job'[s][p].err \in ToolErrors) =>
             /\ quarantine'[p] >= 0
             /\ ~Exists(ready'[p])
             /\ job'[s][p].calls = 1]_vars

\* C10: no scan_once call starts while a job of an earlier call is short of its
\* terminal outcome
C10_PassesDoNotOverlap ==
    [][(LoopScan \/ ScanNow) =>
          \A s \in Slots, p \in Paths : job[s][p].ph \notin Live]_vars

\* C11: once DirectoryScanner.stop has been called, run_forever starts no
\* scan pass, whether stop came before its first step, during a pass or during
\* its sleep
C11_NoPassAfterStop ==
    [][LoopScan => ~stop_called]_vars

\* C12: the shutdown of the host cancels no job that holds a slot of the
\* current batch: every admitted job goes on to its own outcome
C12_NoJobCancelled ==
    [][\A s \in Slots, p \in Paths :
          job[s][p].ph \in Admitted => job'[s][p].ph # "cancelled"]_vars

\* C13: a path is a candidate of a scan pass only if _known held, before the
\* pass, a record of it with the size and the modification time it has now,
\* and the modification time is at least min_file_age_seconds old; a path
\* without a record, or with a record that differs, is no candidate
C13_CandidateWasObserved ==
    [][(LoopScan \/ ScanNow) =>
          \A p \in pass'[FreeSlot].cands :
             /\ known[p] # NoState
             /\ known[p].first_seen <= now
             /\ known[p].size = ready[p].size
             /\ known[p].mtime = ready[p].mtime
             /\ now - ready[p].mtime >= min_file_age_seconds]_vars

\* a path that a producer wrote after the first pass, recorded by one pass
\* and a candidate of a later one
C13_Witness ==
    \E s \in Slots, p \in Paths :
       /\ arrivals = 1
       /\ p \in pass[s].cands
       /\ known[p].first_seen > min_file_age_seconds
       /\ now > known[p].first_seen

\* C14: a path that two consecutive scan passes did not find in the ready
\* directory has no record in _known after the second of them
C14_MissingIsForgotten ==
    \A p \in Paths : misses[p] >= 2 => known[p] = NoState

\* C15: no two jobs whose untrunc process is running have the same input path
\* (the destination of a job is its input path under the export directory, so
\* this is also: no two of them have the same destination)
C15_RunningJobsAreDistinct ==
    \A s1, s2 \in Slots, p \in Paths :
       job[s1][p].ph = "tool" /\ job[s2][p].ph = "tool" => s1 = s2

\* C16: a selector that is given fewer than 2 candidates returns none: a scan
\* pass with fewer than 2 candidates has no reference, and
\* select_reference_file answers none for a listing of fewer than 2 files,
\* with every strategy and every reference_key
C16_NoReferenceBelowTwo ==
    /\ \A s \in Slots :
          pass[s].origin \in {"loop", "now"} /\ Cardinality(pass[s].cands) < 2
             => pass[s].ref = 0
    /\ result.status = 1 /\ Len(event.files) < 2 => result.reference_file = 0

\* C17: a scan_once call that finds fewer than 2 candidates returns at once:
\* it creates no worker and leaves the three directories as they are; and
\* handle_submit_batch answers 400, without a call of submit_job, for a
\* listing of fewer than 2 files
C17_NoJobsBelowTwo ==
    [][/\ (LoopScan \/ ScanNow) /\ Cardinality(pass'[FreeSlot].cands) < 2
            => /\ pass'[FreeSlot].st = "returned"
               /\ \A p \in Paths : job'[FreeSlot][p] = NoJob
               /\ ready' = ready /\ export' = export /\ quarantine' = quarantine
       /\ (\E submitted \in BOOLEAN : HandleSubmitBatch(submitted))
             /\ Len(event.files) < 2
            => result'.status = 400]_vars

\* the handler has refused a listing of one file, and a pass of the loop has
\* returned with its one candidate
C17_Witness ==
    /\ Len(event.files) = 1
    /\ result.status = 400
    /\ \E s \in Slots : /\ pass[s].origin = "loop"
                        /\ Cardinality(pass[s].cands) = 1
                        /\ pass[s].st = "returned"

\* C18: with strategy smallest, no reference_key and at least 2 candidates, the
\* reference is a candidate, no candidate is smaller than it, and no candidate
\* of the same size comes before it in the order in which the selector got
\* the candidates (the directory order, the order of the listing)
C18_SmallestIsFirstMinimum ==
    [][/\ (LoopScan \/ ScanNow)
            /\ settings.reference_strategy = "smallest"
            /\ Cardinality(pass'[FreeSlot].cands) >= 2
            => LET c == pass'[FreeSlot].cands
                   r == pass'[FreeSlot].ref
               IN /\ r \in c
                  /\ \A q \in c : /\ ready[r].size <= ready[q].size
                                  /\ ready[q].size = ready[r].size => r <= q
       /\ result'.status \in {1, 202}
            /\ event.reference_strategy = "smallest"
            /\ event.reference_key = 0
            /\ Len(event.files) >= 2
            => \E i \in 1..Len(event.files) :
                  /\ event.files[i].key = result'.reference_file
                  /\ \A j \in 1..Len(event.files) :
                        /\ event.files[i].size <= event.files[j].size
                        /\ event.files[j].size = event.files[i].size => i <= j]_vars

\* a batch of three candidates whose second and third are the two smallest:
\* the second is the reference
C18_Witness ==
    \E s \in Slots :
       /\ settings.reference_strategy = "smallest"
       /\ pass[s].cands = {1, 2, 3}
       /\ pass[s].ref = 2
       /\ \A p \in {1, 3} : job[s][p].ph = "pending"
       /\ ready[1].size = 2048 /\ ready[2].size = 512 /\ ready[3].size = 512

\* C19: with strategy newest, no reference_key and at least 2 candidates, the
\* reference is a candidate, no candidate has a later modification time, and
\* no candidate of the same modification time comes before it in the order in
\* which the selector got the candidates
C19_NewestIsFirstMaximum ==
    [][/\ (LoopScan \/ ScanNow)
            /\ settings.reference_strategy = "newest"
            /\ Cardinality(pass'[FreeSlot].cands) >= 2
            => LET c == pass'[FreeSlot].cands
                   r == pass'[FreeSlot].ref
               IN /\ r \in c
                  /\ \A q \in c : /\ ready[r].mtime >= ready[q].mtime
                                  /\ ready[q].mtime = ready[r].mtime => r <= q
       /\ result'.status \in {1, 202}
            /\ event.reference_strategy = "newest"
            /\ event.reference_key = 0
            /\ Len(event.files) >= 2
            => \E i \in 1..Len(event.files) :
                  /\ event.files[i].key = result'.reference_file
                  /\ \A j \in 1..Len(event.files) :
                        /\ event.files[i].last_modified >= event.files[j].last_modified
                        /\ event.files[j].last_modified = event.files[i].last_modified
                              => i <= j]_vars

\* a listing of three objects whose second and third are the two newest: the
\* second is the reference of the submitted batch
C19_Witness ==
    /\ event.reference_strategy = "newest"
    /\ event.reference_key = 0
    /\ Len(event.files) = 3
    /\ event.files[1].last_modified = 1
    /\ event.files[2].last_modified = 2
    /\ event.files[3].last_modified = 2
    /\ result.status = 202
    /\ result.reference_file = 2

\* C20: a strategy other than smallest and newest never fails and selects what
\* smallest selects: the edge service starts with such a configured strategy,
\* and select_reference_file answers for it what it answers for smallest
C20_UnknownStrategyIsSmallest ==
    /\ ~validate_strategy(settings.reference_strategy) => loop # "failed"
    /\ result.status = 1 /\ ~validate_strategy(event.reference_strategy)
          => result.reference_file =
                select_reference_file(event.files, "smallest", event.reference_key)

\* C21: select_reference_file answers the reference_key of the request when
\* the listing holds that key, whatever the strategy, the sizes and the
\* modification times; a reference_key outside the listing is ignored, and an
\* answer other than none is a key of the listing
C21_OverrideWinsAndResultIsMember ==
    result.status \in {1, 202} =>
       LET keys == {event.files[i].key : i \in 1..Len(event.files)}
       IN /\ event.reference_key \in keys => result.reference_file = event.reference_key
          /\ result.reference_file # 0 => result.reference_file \in keys

\* the override names the larger and older of two files and is the answer
C21_Witness ==
    /\ result.status = 1
    /\ Len(event.files) >= 2
    /\ event.reference_key = 1
    /\ event.files[1].size = 2048 /\ event.files[2].size = 512
    /\ event.files[1].last_modified = 1 /\ event.files[2].last_modified = 2
    /\ result.reference_file = 1

\* C22: the snap to the grid only rounds up: for a request that
\* calculate_resources produced from total_bytes >= largest_file_bytes >= 0,
\* validate_fargate_resources answers a compute value and a memory value that
\* are not below the requested ones
C22_SnapOnlyRoundsUp ==
    sizing.st = "valid" /\ sizing.auto_scaled
       /\ sizing.total_bytes >= sizing.largest_file_bytes
       => sizing.vcpu_str >= sizing.vcpu /\ sizing.memory_int >= sizing.memory

\* C23: the sizing is monotonic: whatever calculate_resources answered for
\* (total_bytes, largest_file_bytes), its memory and storage for a larger
\* total_bytes with the same largest_file_bytes, and for a larger
\* largest_file_bytes with the same total_bytes, are not smaller; the same
\* holds for the memory and the storage after validate_fargate_resources and
\* the storage cap
C23_SizingIsMonotonic ==
    sizing.auto_scaled =>
       \A t \in SizePoints, l \in SizePoints :
          /\ \/ t >= sizing.total_bytes /\ l = sizing.largest_file_bytes
             \/ t = sizing.total_bytes /\ l >= sizing.largest_file_bytes
          => LET more == calculate_resources(t, l)
                 valid == validate_fargate_resources(more.vcpu, more.memory)
             IN IF sizing.st = "resources"
                THEN more.memory >= sizing.memory /\ more.storage >= sizing.storage
                ELSE /\ valid[2] >= sizing.memory_int
                     /\ Min(more.storage, 200) >= sizing.storage

\* a batch at the threshold of the first tier with a file of 9000 units: its
\* memory after the snap is 8192, that of the next larger batch is 9216
C23_Witness ==
    /\ sizing.st = "valid"
    /\ sizing.auto_scaled
    /\ sizing.total_bytes = 5 * 2048
    /\ sizing.largest_file_bytes = 9000
    /\ sizing.memory_int = 8192
    /\ validate_fargate_resources(
          calculate_resources(5 * 2048 + 1, 9000).vcpu,
          calculate_resources(5 * 2048 + 1, 9000).memory)[2] = 9216

\* C24: whatever compute and memory are requested (fractional compute values
\* and values above the largest of the grid included),
\* validate_fargate_resources answers a pair of the grid: a key of
\* FARGATE_VALID_COMBOS and a memory of the list of that key
C24_SnapIsOnTheGrid ==
    sizing.st = "valid" =>
       /\ sizing.vcpu_str \in Range(valid_vcpus)
       /\ sizing.memory_int \in Range(FARGATE_VALID_COMBOS(sizing.vcpu_str))

\* a request of 17 vCPU and 200000 MB is answered with 16 vCPU and 122880 MB
C24_Witness ==
    /\ sizing.st = "valid"
    /\ sizing.vcpu = 1700 /\ sizing.memory = 200000
    /\ sizing.vcpu_str = 1600 /\ sizing.memory_int = 122880

\* C26: calculate_resources takes the first tier whose threshold is not below
\* the total size (the tier itself for a total equal to its threshold, the
\* last tier for a total above every threshold) and answers the compute of
\* that tier, memory = min(max(tier memory, 2 x largest file in MB), 122880)
\* and storage = min(max(tier storage, 3 x largest file in GB + 10), 200),
\* the two products rounded down.  A file of u units has u / 2 MB.
C26_TierAndClamps ==
    sizing.st = "resources" /\ sizing.auto_scaled =>
       LET below == {i \in 1..Len(RESOURCE_TIERS) :
                        RESOURCE_TIERS[i][1] * 2048 < sizing.total_bytes}
           n == IF Cardinality(below) = Len(RESOURCE_TIERS)
                THEN Len(RESOURCE_TIERS) ELSE Cardinality(below) + 1
           twice_mb == sizing.largest_file_bytes
           thrice_gb == (3 * sizing.largest_file_bytes) \div 2048
           larger_memory == IF RESOURCE_TIERS[n][3] >= twice_mb
                            THEN RESOURCE_TIERS[n][3] ELSE twice_mb
           larger_storage == IF RESOURCE_TIERS[n][4] >= thrice_gb + 10
                             THEN RESOURCE_TIERS[n][4] ELSE thrice_gb + 10
       IN /\ sizing.vcpu = RESOURCE_TIERS[n][2]
          /\ sizing.memory = IF larger_memory <= 122880 THEN larger_memory ELSE 122880
          /\ sizing.storage = IF larger_storage <= 200 THEN larger_storage ELSE 200

\* a total of exactly 20 GB with a largest file of 9000 units: the second
\* tier, its memory raised to 9000 MB
C26_Witness ==
    /\ sizing.st = "resources"
    /\ sizing.auto_scaled
    /\ sizing.total_bytes = 20 * 2048
    /\ sizing.largest_file_bytes = 9000
    /\ sizing.vcpu = 200 /\ sizing.memory = 9000 /\ sizing.storage = 60

\* C25: an exception of scan_once does not end run_forever: the step in which
\* the loop's scan_once raises leaves the loop in its sleep, and from that
\* sleep, while time can still pass, the loop starts its next pass after the
\* scan interval
C25_LoopSurvivesError ==
    /\ [][\A s \in Slots :
             pass[s].origin = "loop" /\ pass[s].st = "gather" /\ pass'[s].st = "raised"
                => loop' = "sleeping"]_vars
    /\ \A t \in {min_file_age_seconds + k * scan_interval_seconds : k \in 0..(MaxTicks - 1)} :
          (/\ loop = "sleeping"
           /\ now = t
           /\ \E s \in Slots : pass[s].origin = "loop" /\ pass[s].st = "raised")
             ~> (now > t /\ loop \in {"scanning", "sleeping"})

\* the loop has started a pass after the one that raised
C25_Witness ==
    \E s1, s2 \in Slots :
       /\ s1 # s2
       /\ pass[s1].origin = "loop" /\ pass[s1].st = "raised"
       /\ pass[s2].origin = "loop" /\ pass[s2].st = "gather"
       /\ loop = "scanning"

\* C27: the steps of one job come in the order checks, tool, validation,
\* cleanup: the untrunc process of a job is started only from the wait for
\* the semaphore and only while its input and its reference exist, and the
\* step in which a job deletes its input from ready is the step from the tool
\* to success, with exit code 0 and a destination of at least 1024 bytes
C27_JobStepsInOrder ==
    [][\A s \in Slots, p \in Paths :
          /\ job[s][p].ph # "tool" /\ job'[s][p].ph = "tool"
                => /\ job[s][p].ph = "pending"
                   /\ Exists(ready[p])
                   /\ Exists(ready[pass[s].ref])
          /\ (/\ job[s][p].ph \in Admitted \cup {"pending"}
              /\ job'[s][p].ph # job[s][p].ph
              /\ Exists(ready[p]) /\ ~Exists(ready'[p])
              /\ quarantine'[p] = quarantine[p])
                => /\ job[s][p].ph = "tool"
                   /\ ToolExit(s, p, 0)
                   /\ pass'[s].repaired = pass[s].repaired + 1
                   /\ job'[s][p].ph = "succeeded" \/ pass[s].st = "raised"
                   /\ job'[s][p].ph = "succeeded" => job'[s][p].rc = 0
                   /\ export'[p] >= MinPlausibleSize]_vars

\* one job of the batch has succeeded and deleted its input, and another was
\* refused by the checks before any process was started
C27_Witness ==
    \E s \in Slots, p, q \in Paths :
       /\ job[s][p].ph = "succeeded"
       /\ ~Exists(ready[p])
       /\ job[s][q].err \in {"input_missing", "reference_missing"}
       /\ job[s][q].rc = -1

\* C28: a tool that does not exit in time is killed and waited for and its
\* run_untrunc call fails, so the job has left its tool phase when the call
\* returns; and every job that holds a slot of its batch reaches Succeeded or
\* Failed, and every batch drains
C28_TimeoutEndsJobAndBatchDrains ==
    /\ [][\A s \in Slots, p \in Paths :
             ToolTimeout(s, p) =>
                /\ job'[s][p].rc = -9
                /\ job'[s][p].err = "timeout"
                /\ job'[s][p].ph # "tool"]_vars
    /\ \A s \in Slots, p \in Paths :
          (job[s][p].ph \in Admitted) ~> (job[s][p].ph \in {"succeeded", "failed"})
    /\ \A s \in Slots :
          (pass[s].st = "gather") ~> (\A p \in Paths : job[s][p].ph \notin Live)

\* C29: _invoke_aws_fallback returns delivered in the step of the first 2xx
\* reply, without another attempt or wait; after the failed attempt k that is
\* not the last it sleeps 2^k seconds plus a jitter of less than a second
\* before attempt k + 1; after the last attempt it does not sleep; so a
\* dispatch has slept once less than it has sent, also when it is exhausted
C29_BackoffBetweenAttempts ==
    [][\A s \in Slots, p \in Paths :
          LET j == job[s][p]
              j1 == job'[s][p]
          IN /\ j.ph = "post" /\ j1.fb = "delivered"
                   => j1.ph = "failed" /\ j1.posts = j.posts /\ j1.waits = j.waits
             /\ j.ph = "post" /\ j1.ph = "sleep"
                   => /\ j.k < aws_fallback_retries - 1
                      /\ j1.waits = j.waits + 1
                      /\ j1.wait >= 10 * 2^(j.k)
                      /\ j1.wait < 10 * 2^(j.k) + 10
             /\ j.ph = "post" /\ j.k = aws_fallback_retries - 1 => j1.ph # "sleep"
             /\ j.ph = "post" /\ j.k < aws_fallback_retries - 1 /\ j1.ph = "failed"
                   => j1.fb = "delivered"
             /\ j.ph = "sleep" /\ j1.ph # "sleep"
                   => j1.ph = "post" /\ j1.k = j.k + 1 /\ j1.posts = j.posts + 1
             /\ j1.fb \in {"delivered", "exhausted"}
                   => j1.waits = j1.posts - 1]_vars

\* a dispatch was delivered by its second attempt, after one sleep
C29_Witness ==
    \E s \in Slots, p \in Paths :
       /\ job[s][p].fb = "delivered"
       /\ job[s][p].posts = 2
       /\ job[s][p].waits = 1

\* C30: every repair target of a scan_once batch goes from Pending to Running
\* and from Running to Succeeded or Failed, an outcome never changes while the
\* batch lasts, each outcome adds one to its counter, and when scan_once
\* returns after its gather, repaired + failed is the number of repair targets
\* and scanned is repaired + failed + 1
C30_EachTargetCountedOnce ==
    [][\A s \in Slots :
          pass[s].origin \in {"loop", "now"} =>
             /\ \A p \in Paths :
                   LET ph == job[s][p].ph
                       ph1 == job'[s][p].ph
                       counted == /\ ph1 = "none"
                                  /\ pass[s].st = "raised"
                                  /\ pass'[s].repaired + pass'[s].failed
                                        = pass[s].repaired + pass[s].failed + 1
                   IN /\ ph = "pending" /\ ph1 # ph
                            => \/ ph1 \in Admitted \cup {"succeeded", "failed"}
                               \/ counted
                      /\ ph \in Admitted /\ ph1 # ph
                            => \/ ph1 \in Admitted \cup {"succeeded", "failed"}
                               \/ counted
                      /\ ph \in {"succeeded", "failed"} /\ ph1 # ph
                            => ph1 = "none" /\ pass'[s].st # "gather"
                      /\ ph # "succeeded" /\ ph1 = "succeeded"
                            => /\ pass'[s].repaired = pass[s].repaired + 1
                               /\ pass'[s].failed = pass[s].failed
                      /\ ph # "failed" /\ ph1 = "failed"
                            => /\ pass'[s].failed = pass[s].failed + 1
                               /\ pass'[s].repaired = pass[s].repaired
             /\ pass[s].st = "gather" /\ pass'[s].st = "returned"
                   => /\ pass[s].repaired + pass[s].failed = Cardinality(Targets(s))
                      /\ Cardinality(pass[s].cands)
                            = pass[s].repaired + pass[s].failed + 1]_vars

\* C31: a scan_once batch keeps one reference for all its run_untrunc calls,
\* the reference is still in ready while a job of the batch is running its
\* tool, no step of a job of the batch takes the reference out of ready, and
\* the return of scan_once leaves it in ready with a copy in export
C31_ReferenceStaysInPlace ==
    /\ [](\A s \in Slots :
             (/\ pass[s].origin \in {"loop", "now"}
              /\ \E p \in Paths : job[s][p].ph = "tool")
                => Exists(ready[pass[s].ref]))
    /\ [][\A s \in Slots :
             pass[s].origin \in {"loop", "now"} /\ pass[s].st = "gather" =>
                /\ pass'[s].st = "gather" => pass'[s].ref = pass[s].ref
                /\ (/\ \E p \in Paths : job'[s][p] # job[s][p]
                    /\ Exists(ready[pass[s].ref]))
                      => Exists(ready'[pass[s].ref])
                /\ pass'[s].st = "returned"
                      => /\ Exists(ready'[pass[s].ref])
                         /\ export'[pass[s].ref] >= 0]_vars

\* C32: a path is a candidate of a scan pass only if the observation that
\* made its record in _known (first_seen) lies at least min_file_age_seconds
\* before the pass that reports it stable
C32_ObservationsAreSpaced ==
    [][(LoopScan \/ ScanNow) =>
          \A p \in pass'[FreeSlot].cands :
             now - known[p].first_seen >= min_file_age_seconds]_vars

\* C33: the step in which run_untrunc returns to the worker of one job of a
\* batch (exit of the tool or timeout, with the relocation of <input>_fixed,
\* the size check, the deletion of the input and the quarantine move) leaves
\* the input and the output of every other job of the batch as they are
C33_FilePairIsOwned ==
    [][\A s \in Slots, p, q \in Paths :
          (/\ p # q
           /\ pass[s].origin \in {"loop", "now"}
           /\ job[s][p].ph = "tool"
           /\ job[s][q].ph # "none"
           /\ ToolExit(s, p, 0) \/ ToolExit(s, p, 1) \/ ToolTimeout(s, p))
             => /\ ready'[q] = ready[q]
                /\ export'[q] = export[q]]_vars

\* the jobs of batch s that hold a slot of its semaphore
Holders(s) == {p \in Paths : job[s][p].ph \in Admitted}

\* C34: a job whose local repair failed holds its slot from the quarantine
\* move to the return of _invoke_aws_fallback: the slots in use are the jobs
\* in their tool, in a POST or in a backoff sleep; the step from the tool to
\* the first POST, every retry and every backoff leave the semaphore as it
\* is; the slot is given back in the step of the last reply, when the
\* dispatch is delivered or exhausted; and a pending job is admitted only
\* when a slot is free
C34_SlotHeldThroughFallback ==
    /\ [](\A s \in Slots :
             pass[s].origin \in {"loop", "now"} =>
                /\ pass[s].sem >= 0
                /\ Holders(s) # {} =>
                      pass[s].sem + Cardinality(Holders(s))
                         = settings.max_concurrent_jobs)
    /\ [][\A s \in Slots, p \in Paths :
             pass[s].origin \in {"loop", "now"} =>
                /\ (job[s][p].ph = "tool" /\ job'[s][p].ph = "post")
                      => /\ pass'[s].sem = pass[s].sem
                         /\ ~Exists(ready'[p])
                /\ (job[s][p].ph = "pending" /\ job'[s][p].ph # "pending")
                      => /\ pass[s].sem > 0
                         /\ job'[s][p].ph \in Admitted
                               => pass'[s].sem = pass[s].sem - 1
                /\ (/\ job[s][p].ph \in {"post", "sleep"}
                    /\ job'[s][p].ph \in {"post", "sleep"})
                      => pass'[s].sem = pass[s].sem
                             \/ job'[s][p] = job[s][p]
                /\ (/\ job[s][p].ph \in {"post", "sleep"}
                    /\ job'[s][p].ph \notin {"post", "sleep"})
                      => /\ job[s][p].ph = "post"
                         /\ pass'[s].sem = pass[s].sem + 1
                         /\ \/ /\ job'[s][p].ph = "failed"
                               /\ job'[s][p].fb \in {"delivered", "exhausted"}
                            \/ /\ job'[s][p].ph = "none"
                               /\ pass[s].st = "raised"]_vars

\* with one slot, a failed job sleeps between two attempts of its dispatch
\* while another job of the batch waits for the semaphore
C34_Witness ==
    \E s \in Slots, p, q \in Paths :
       /\ settings.max_concurrent_jobs = 1
       /\ pass[s].sem = 0
       /\ job[s][p].ph = "sleep"
       /\ job[s][p].waits >= 1
       /\ quarantine[p] >= 0
       /\ job[s][q].ph = "pending"

====
